---- MODULE Spec2Model ----
(***************************************************************************)
(* Giffit: a browser extension that lets the user select a bounded time    *)
(* range of a YouTube video in a side panel and export it as a GIF.        *)
(*                                                                         *)
(* Time is measured in ticks of 1/30 s, the finest frame duration the      *)
(* panel's frame-rate slider allows, so that the 0.1 s floor of the start  *)
(* handle (3 ticks) and the frame times start + i/fps for fps in           *)
(* {10, 15, 30} are exact integers.                                        *)
(*                                                                         *)
(* SpecSel  models the selection panel: Overlay's startTime/endTime state  *)
(*          and the Timeline gestures that move them.                      *)
(* SpecJob  models one panel's conversion jobs: handleStartConversion,     *)
(*          VideoProcessor.processVideo, the page's video element and the  *)
(*          VideoPreview controls that share it.                           *)
(* SpecPanel models the content script that puts the panel's root element  *)
(*          into the page and takes it out again, in its two builds.       *)
(* SpecBridge models requestYouTubeDataFromPage and the window messages it *)
(*          exchanges with the script in the page context.                 *)
(* SpecMsg  models the chrome.runtime message listeners of the background  *)
(*          worker, the offscreen document and the content script.         *)
(* SpecTime and SpecUrl apply parseTimeString and parseYouTubeUrl to       *)
(*          strings, which are sequences of characters.                    *)
(***************************************************************************)
EXTENDS Integers, Sequences, FiniteSets, TLC

VARIABLES
    \* Overlay component state (part_003)
    startTime, endTime, videoDuration, status, errorMessage, outputBlob, fps, width,
    \* Timeline component state (part_004)
    dragging,
    \* the page's video element
    hasVideo, videoWidth, videoHeight, vCurrentTime, vPaused, vSeeking,
    \* one processVideo call: position, arguments, locals, and whether the
    \* seeked promise it awaits has resolved
    pc, options, i, frames, wasPlaying, encoded, seekedSince,
    \* the progress infos passed to onProgress by the current processVideo call
    reports,
    \* history: the handler that ran last with its argument and the selection
    \* it found, who wrote currentTime last, the play state when the job began,
    \* the number of seeks the capture loop has issued
    lastOp, vWriter, playingAtStart, seeksIssued,
    \* the content script and the document: which build of the script is
    \* loaded, whether init() has run, the page's address, the script's
    \* overlayInjected flag, observeUrlChanges' lastUrl and debounce timer,
    \* whether the MutationObserver is connected, the elements with id
    \* ytgif-overlay-root in document order, the number of elements created
    \* so far, the handlers suspended at an await, and handleClose's timers
    build, started, href, overlayInjected, lastUrl, checkTimeout, observing,
    roots, created, suspended, closing,
    \* history: how many of the suspended show requests were made after the
    \* latest close, and the answer to the latest show request made after it
    fresh, lastShow,
    \* requestYouTubeDataFromPage: the time in seconds, whether the script in
    \* the page context runs, the window messages posted and not yet
    \* dispatched, the promise of the current call, whether its message
    \* listener is registered and its timer armed, when the timer is due, and
    \* the value the promise was resolved with
    clock, bridgeInjected, inbox, promise, listening, timerArmed, deadline, result,
    \* history: calls made, calls of resolve by the current call, the data of
    \* the typed response its listener received, when it settled, whether the
    \* listener threw, and the results of the calls so far
    requests, resolveCalls, firstResponse, settledAt, handlerThrew, outcomes,
    \* chrome.runtime messages: per context the message its listener has
    \* been handed, and what the sender of the latest message got back
    pending, answered,
    \* the parsers: hours, minutes and seconds to write as a time string, the
    \* string, the number parseTimeString returns for it, the address given
    \* to parseYouTubeUrl, and the YouTubeClipInfo it returns
    hms, timeStr, seconds, address, clipInfo,
    \* history: whether handleDownload has handed the stored blob to
    \* downloadBlob
    downloadCalled,
    \* per panel created, the position of the processVideo call it started
    panelJob,
    \* concurrent requestYouTubeDataFromPage calls: per call its promise, the
    \* data it resolved with and (history) the request whose response
    \* resolved it; the window messages posted and not yet dispatched, each
    \* with (history) the call whose request it belongs to
    calls, channel,
    \* one waitForClipData call: its position, the milliseconds since the
    \* current polling phase began, whether the address has a /clip/<id>
    \* segment, and the info the promise resolved with
    waitPc, waitElapsed, waitClipId, waitInfo,
    \* the service worker: its offscreenDocumentCreated flag, the browser's
    \* offscreen document, per setupOffscreenDocument call its position and
    \* the ping attempts of its waitForOffscreenReady, and (history) the
    \* createDocument invocations made while a document existed or was being
    \* created
    offscreenDocumentCreated, offscreenDoc, setupPc, attempts, busyCreates

selVars   == <<startTime, endTime, videoDuration, dragging>>
panelVars == <<status, errorMessage, outputBlob, fps, width>>
videoVars == <<hasVideo, videoWidth, videoHeight, vCurrentTime, vPaused, vSeeking>>
jobVars   == <<pc, options, i, frames, wasPlaying, encoded, seekedSince, reports>>
histVars  == <<lastOp, vWriter, playingAtStart, seeksIssued>>
docVars   == <<build, started, href, overlayInjected, lastUrl, checkTimeout, observing,
               roots, created, suspended, closing, fresh, lastShow>>
bridgeVars == <<clock, bridgeInjected, inbox, promise, listening, timerArmed, deadline, result,
                requests, resolveCalls, firstResponse, settledAt, handlerThrew, outcomes>>
msgVars   == <<pending, answered>>
parseVars == <<hms, timeStr, seconds, address, clipInfo>>
downloadVars == <<downloadCalled>>
captureVars == <<panelJob>>
callVars  == <<calls, channel>>
waitVars  == <<waitPc, waitElapsed, waitClipId, waitInfo>>
offscreenVars == <<offscreenDocumentCreated, offscreenDoc, setupPc, attempts, busyCreates>>
auxVars   == <<captureVars, callVars, waitVars, offscreenVars>>
\* everything outside the panel
pageVars  == <<docVars, bridgeVars, msgVars, parseVars, auxVars>>
extVars   == <<pageVars, downloadVars>>
\* the variables of the selection, conversion, content script, bridge,
\* message and parser models
baseVars  == <<selVars, panelVars, videoVars, jobVars, histVars, docVars, bridgeVars, msgVars,
               parseVars>>
vars      == <<selVars, panelVars, videoVars, jobVars, histVars, extVars>>

(***************************************************************************)
(* Units, program constants and bounds                                     *)
(***************************************************************************)
TicksPerSecond == 30
MAX_GIF_DURATION == 15
PIXELS_PER_SECOND == 20
\* the 0.1 s floor of handleStartTimeChange, in ticks
EPSILON == TicksPerSecond \div 10
MaxSpan == MAX_GIF_DURATION * TicksPerSecond

\* longest video of the selection model, in seconds
MaxVideoSeconds == 36
\* a video shorter than MAX_GIF_DURATION, in seconds
ShortVideoSeconds == 12
\* pointer positions 1..MaxSubPixel px give sub-second times
MaxSubPixel == 6

Min(a, b) == IF a <= b THEN a ELSE b
Max(a, b) == IF a >= b THEN a ELSE b
Secs(n) == n * TicksPerSecond

FpsChoices == {10, 15, 30}
VideoDurations == {Secs(ShortVideoSeconds), Secs(MaxVideoSeconds)}

\* Math.round(a / b) for b > 0: halves round towards +infinity
Round(a, b) == (2 * a + b) \div (2 * b)


(***************************************************************************)
(* Selection panel: Overlay selection state and Timeline gestures          *)
(***************************************************************************)
NoOp == [op |-> "init", t |-> 0, s0 |-> 0, e0 |-> 0]
Op(name, t) == [op |-> name, t |-> t, s0 |-> startTime, e0 |-> endTime]

\* Overlay's mount effect: Math.floor(currentTime) and min(start + MAX, duration)
InitialStart(currentTime) == (currentTime \div TicksPerSecond) * TicksPerSecond
InitialEnd(currentTime, duration) == Min(InitialStart(currentTime) + MaxSpan, duration)

\* pointer positions in px relative to the track's left edge (scroll included):
\* one per PointerStepSeconds, one left of the track, one right of the longest
\* track, and the first few pixels
PointerStepSeconds == 5
PointerXs ==
    {k * PointerStepSeconds * PIXELS_PER_SECOND : k \in -1 .. (MaxVideoSeconds \div PointerStepSeconds) + 1}
        \cup (1 .. MaxSubPixel)

\* Timeline.getTimeFromMouseEvent: px -> seconds, snapped to the frame grid of
\* fps, clamped to the video
getTimeFromMouseEvent(x) ==
    LET frameTicks == TicksPerSecond \div fps
        snappedTime == Round(x * fps, PIXELS_PER_SECOND) * frameTicks
    IN  Max(0, Min(videoDuration, snappedTime))

\* handleStartTimeChange without the adjustment of endTime
handleStartTimeChange_noPull(newStartTime) ==
    /\ startTime' = Max(0, Min(newStartTime, endTime - EPSILON))
    /\ endTime' = endTime
    /\ lastOp' = Op("start", newStartTime)

\* handleStartTimeChange without the 0.1 s floor below endTime
handleStartTimeChange_noFloor(newStartTime) ==
    LET maxStart == Max(0, Min(newStartTime, endTime))
    IN  /\ endTime' = IF endTime - maxStart > MaxSpan THEN maxStart + MaxSpan ELSE endTime
        /\ startTime' = maxStart
        /\ lastOp' = Op("start", newStartTime)

\* Overlay.handleStartTimeChange
handleStartTimeChange(newStartTime) ==
    LET maxStart == Max(0, Min(newStartTime, endTime - EPSILON))
    IN  /\ endTime' = IF endTime - maxStart > MaxSpan THEN maxStart + MaxSpan ELSE endTime
        /\ startTime' = maxStart
        /\ lastOp' = Op("start", newStartTime)

\* Overlay.handleEndTimeChange
handleEndTimeChange(newEndTime) ==
    /\ endTime' = Min(Min(newEndTime, startTime + MaxSpan), videoDuration)
    /\ startTime' = startTime
    /\ lastOp' = Op("end", newEndTime)

Abs(a) == IF a >= 0 THEN a ELSE -a

\* what the Timeline gestures leave alone
SelFrame == <<extVars, videoDuration, panelVars, videoVars, jobVars, vWriter, playingAtStart, seeksIssued>>

handleStartMouseDown ==
    /\ dragging' = "start"
    /\ lastOp' = Op("startMouseDown", 0)
    /\ UNCHANGED <<startTime, endTime, SelFrame>>

handleEndMouseDown ==
    /\ dragging' = "end"
    /\ lastOp' = Op("endMouseDown", 0)
    /\ UNCHANGED <<startTime, endTime, SelFrame>>

handleMouseMove(x) ==
    /\ dragging # "none"
    /\ IF dragging = "start"
          THEN handleStartTimeChange(getTimeFromMouseEvent(x))
          ELSE handleEndTimeChange(getTimeFromMouseEvent(x))
    /\ UNCHANGED <<dragging, SelFrame>>

handleMouseUp ==
    /\ dragging # "none"
    /\ dragging' = "none"
    /\ lastOp' = Op("mouseUp", 0)
    /\ UNCHANGED <<startTime, endTime, SelFrame>>

handleTrackClick(x) ==
    /\ dragging = "none"
    /\ LET newTime == getTimeFromMouseEvent(x)
           distToStart == Abs(newTime - startTime)
           distToEnd == Abs(newTime - endTime)
       IN  IF distToStart < distToEnd
              THEN handleStartTimeChange(newTime)
              ELSE handleEndTimeChange(newTime)
    /\ UNCHANGED <<dragging, SelFrame>>

NoOptions == [fps |-> 0, width |-> 0, startTime |-> 0, duration |-> 0]

\* the content script before init() has run, on a page that is not a clip
DocIdle ==
    /\ build = "onDemand" /\ started = FALSE /\ href = "watch"
    /\ overlayInjected = FALSE /\ lastUrl = "watch" /\ checkTimeout = FALSE
    /\ observing = FALSE /\ roots = <<>> /\ created = 0 /\ suspended = 0
    /\ closing = {} /\ fresh = 0 /\ lastShow = "none"

\* no request to the page context has been made
BridgeIdle ==
    /\ clock = 0 /\ bridgeInjected = TRUE /\ inbox = <<>> /\ promise = "none"
    /\ listening = FALSE /\ timerArmed = FALSE /\ deadline = 0 /\ result = "none"
    /\ requests = 0 /\ resolveCalls = 0 /\ firstResponse = "none" /\ settledAt = 0
    /\ handlerThrew = FALSE /\ outcomes = <<>>

Contexts == {"background", "offscreen", "content"}
NoMessage == [type |-> "none", sender |-> "none"]
NoAnswer == [type |-> "none", sender |-> "none", reply |-> "none"]

\* no message is being handled
MsgIdle ==
    /\ pending = [c \in Contexts |-> NoMessage]
    /\ answered = [c \in Contexts |-> NoAnswer]

\* null of startTime and endTime, and parseInt's NaN
NullTime == -1
NaN == -2
NoInfo == [videoId |-> "null", clipId |-> "null", startTime |-> NullTime, endTime |-> NullTime,
           isClip |-> FALSE, url |-> <<>>]

\* nothing has been parsed
ParseIdle ==
    /\ hms = <<0, 0, 1>> /\ timeStr = <<>> /\ seconds = NullTime
    /\ address = <<>> /\ clipInfo = NoInfo

\* nothing has been downloaded
DownloadIdle == downloadCalled = FALSE

\* root elements created during one page's life
MaxPanels == 3

\* no panel has started a conversion
CaptureIdle == panelJob = [r \in 1 .. MaxPanels |-> "none"]

\* calls of requestYouTubeDataFromPage that may be pending together
MaxCallers == 2
NoCall == [state |-> "none", data |-> "none", by |-> 0]

\* no call has been made and no message is in flight
CallIdle == calls = [c \in 1 .. MaxCallers |-> NoCall] /\ channel = <<>>

\* a Partial<YouTubeClipInfo> with no property set
EmptyInfo == [videoId |-> "undefined", startTime |-> "undefined", endTime |-> "undefined"]

\* waitForClipData has not been called
WaitIdle ==
    /\ waitPc = "idle" /\ waitElapsed = 0 /\ waitClipId = FALSE /\ waitInfo = EmptyInfo

\* calls of setupOffscreenDocument during one life of the service worker
MaxSetups == 3

\* the service worker has just started and no offscreen document exists
OffscreenIdle ==
    /\ offscreenDocumentCreated = FALSE /\ offscreenDoc = "none"
    /\ setupPc = [c \in 1 .. MaxSetups |-> "idle"]
    /\ attempts = [c \in 1 .. MaxSetups |-> 0]
    /\ busyCreates = 0

AuxIdle == DownloadIdle /\ CaptureIdle /\ CallIdle /\ WaitIdle /\ OffscreenIdle

\* everything outside the panel's selection and conversion
ExtIdle == DocIdle /\ BridgeIdle /\ MsgIdle /\ ParseIdle /\ AuxIdle

\* everything of the conversion model that the selection model leaves alone
JobIdle ==
    /\ status = "idle" /\ errorMessage = "" /\ outputBlob = "null" /\ width = 480
    /\ hasVideo = TRUE /\ videoWidth = 16 /\ videoHeight = 9
    /\ vCurrentTime = 0 /\ vPaused = TRUE /\ vSeeking = FALSE
    /\ pc = "none" /\ options = NoOptions /\ i = 0 /\ frames = <<>>
    /\ wasPlaying = FALSE /\ encoded = <<>> /\ seekedSince = FALSE /\ reports = <<>>
    /\ vWriter = "none" /\ playingAtStart = FALSE /\ seeksIssued = 0

InitSel ==
    /\ videoDuration \in VideoDurations
    /\ fps \in FpsChoices
    /\ \E sec \in 0 .. MaxVideoSeconds, half \in {0, TicksPerSecond \div 2} :
          /\ Secs(sec) + half < videoDuration
          /\ startTime = InitialStart(Secs(sec) + half)
          /\ endTime = InitialEnd(Secs(sec) + half, videoDuration)
    /\ dragging = "none"
    /\ lastOp = NoOp
    /\ JobIdle
    /\ ExtIdle

NextSel ==
    \/ handleStartMouseDown
    \/ handleEndMouseDown
    \/ \E x \in PointerXs : handleMouseMove(x)
    \/ handleMouseUp
    \/ \E x \in PointerXs : handleTrackClick(x)

SpecSel == InitSel /\ [][NextSel]_vars

(***************************************************************************)
(* Claims about the selection panel (checked under SpecSel)                *)
(***************************************************************************)

\* C1: in every reachable state of the selection panel 0 <= start < end and
\* end - start <= MAX_DURATION.
C1_SelectionInvariant ==
    /\ 0 <= startTime
    /\ startTime < endTime
    /\ endTime - startTime <= MaxSpan

\* C3: an end-move to t sets end to t clamped into
\* [start + epsilon, min(start + MAX_DURATION, totalDuration)] and leaves
\* start unchanged.
C3_EndMoveClamped ==
    lastOp.op = "end" =>
        LET lo == lastOp.s0 + EPSILON
            hi == Min(lastOp.s0 + MaxSpan, videoDuration)
        IN  /\ startTime = lastOp.s0
            /\ endTime >= lo
            /\ endTime <= hi
            /\ (lo <= lastOp.t /\ lastOp.t <= hi) => endTime = lastOp.t

\* C4: a start-move to t sets start to t clamped into [0, end - epsilon] (the
\* lower bound 0 prevailing when end < epsilon leaves that range empty); if
\* the span end - start then exceeds MAX_DURATION, end becomes
\* start + MAX_DURATION, and otherwise end is left alone.
C4_StartMoveClamped ==
    lastOp.op = "start" =>
        LET t == lastOp.t
            hi == lastOp.e0 - EPSILON
        IN  /\ startTime >= 0
            /\ (0 <= t /\ t <= hi) => startTime = t
            /\ (t > hi /\ hi >= 0) => startTime = hi
            /\ (t < 0 \/ hi < 0) => startTime = 0
            /\ endTime = IF lastOp.e0 - startTime > MaxSpan
                            THEN startTime + MaxSpan
                            ELSE lastOp.e0

\* a start-move before end - MAX_DURATION has pulled end along
C4_Witness ==
    /\ lastOp.op = "start"
    /\ lastOp.e0 - lastOp.t > MaxSpan
    /\ startTime = lastOp.t
    /\ endTime = startTime + MaxSpan
    /\ endTime < lastOp.e0

\* C5 as stated: with start=5, end=15, a start-move to 20 gives start=20 and
\* end=35, or end = total duration when 35 lies beyond it.
C5_StartPastEndPullsEnd ==
    (lastOp.op = "start" /\ lastOp.s0 = Secs(5) /\ lastOp.e0 = Secs(15) /\ lastOp.t = Secs(20)) =>
        /\ startTime = Secs(20)
        /\ endTime = Min(Secs(35), videoDuration)

\* C5 as amended: a start-move to a time at or past the current end (end >=
\* epsilon) sets start to end - epsilon and leaves end where it was; from
\* start=5, end=15 a start-move to 20 gives start=14.9, end=15.
C5_StartPastEndClamped ==
    (lastOp.op = "start" /\ lastOp.t >= lastOp.e0 /\ lastOp.e0 >= EPSILON) =>
        /\ startTime = lastOp.e0 - EPSILON
        /\ endTime = lastOp.e0

C5_Witness ==
    /\ lastOp = [op |-> "start", t |-> Secs(20), s0 |-> Secs(5), e0 |-> Secs(15)]
    /\ startTime = Secs(15) - EPSILON
    /\ endTime = Secs(15)
    /\ videoDuration >= Secs(35)

(***************************************************************************)
(* Conversion: handleStartConversion, VideoProcessor.processVideo, the     *)
(* page's video element and the VideoPreview controls                      *)
(***************************************************************************)
\* longest selection of the conversion model, in ticks
MaxJobTicks == 4

RasterCases == {<<480, 1920, 1080>>, <<240, 1080, 1920>>}

\* the selections handleStartConversion is applied to: short valid ones, a
\* zero-length and an inverted one, and {start: 0, end: 9999 s}
JobSelections ==
    {<<s, s + d>> : s \in {0, Secs(1)}, d \in 1 .. MaxJobTicks}
        \cup {<<Secs(1), Secs(1)>>, <<Secs(1), 0>>, <<0, Secs(9999)>>}

InFlight == {"seekStart", "seekFrame"}
\* the seeked promise has resolved and the continuation of processVideo is
\* the next thing the event loop runs
MicrotaskPending == pc \in InFlight /\ seekedSince

\* a validation that checks the ceiling only
RangeError_onlyCeiling(duration) ==
    IF duration > MaxSpan THEN "too_long" ELSE ""

\* handleStartConversion's validation: the message of the rejection, "" if none
RangeError(duration) ==
    IF duration <= 0 THEN "invalid_range"
    ELSE IF duration > MaxSpan THEN "too_long"
    ELSE ""

\* Math.ceil(options.duration * options.fps)
TotalFrames(opts) ==
    (opts.duration * opts.fps + TicksPerSecond - 1) \div TicksPerSecond

\* options.startTime + i * frameDuration
TargetTime(opts, k) == opts.startTime + k * (TicksPerSecond \div opts.fps)

\* the canvas height truncated instead of rounded
CanvasHeight_truncated(opts) == (opts.width * videoHeight) \div videoWidth

\* canvas.height = Math.round(options.width / (videoWidth / videoHeight))
CanvasHeight(opts) == Round(opts.width * videoHeight, videoWidth)

\* the element's position after `currentTime = t`
Sought(t) == Max(0, Min(t, videoDuration))

\* videoElement.currentTime = t by the capture loop
CaptureSeek(t) ==
    /\ vCurrentTime' = Sought(t)
    /\ vSeeking' = TRUE
    /\ vWriter' = "capture"
    /\ seekedSince' = FALSE

\* the capture loop going on without waiting for 'seeked'
AwaitSeeked_noWait == TRUE

\* await new Promise(resolve => addEventListener('seeked', resolve, {once}))
AwaitSeeked == seekedSince

\* an encode loop that starts at the second frame
EncodedFrames_skipFirst(fs, n) == [k \in 1 .. n - 1 |-> fs[k + 1].idx]

\* the encode loop over the first n captured frames, in order
EncodedFrames(fs, n) == [k \in 1 .. n |-> fs[k].idx]

\* Overlay's catch block
OverlayCatch(msg) ==
    /\ status' = "error"
    /\ errorMessage' = msg
    /\ outputBlob' = "null"

\* updateProgress(phase, progress, ...): percentages are kept multiplied by
\* the job's frame count, which makes 20 + (i / totalFrames) * 30 an integer
ProgressScale(opts) == Max(1, TotalFrames(opts))
Report(phase, pct, opts) == [phase |-> phase, num |-> pct * ProgressScale(opts)]

\* a capture progress counted from i + 1 over a span of 50
CaptureProgress_overshoot(opts, k) ==
    [phase |-> "capturing", num |-> 20 * ProgressScale(opts) + (k + 1) * 50]

\* captureProgress = 20 + ((i / totalFrames) * 30)
CaptureProgress(opts, k) ==
    [phase |-> "capturing", num |-> 20 * ProgressScale(opts) + k * 30]

\* encodeProgress = 50 + ((i / frames.length) * 50)
EncodeProgress(opts, k) ==
    [phase |-> "processing", num |-> 50 * ProgressScale(opts) + k * 50]

\* the reports of the encode loop over the first n frames, after rs
EncodeReports(rs, n, opts) ==
    rs \o <<Report("processing", 50, opts)>> \o [k \in 1 .. n |-> EncodeProgress(opts, k - 1)]

\* a job that keeps what it encoded before the exception
RestoreAndEncode_partialOutput(fs, rs) ==
    /\ vPaused' = IF wasPlaying' THEN FALSE ELSE vPaused
    /\ \/ /\ encoded' = EncodedFrames(fs, Len(fs))
          /\ reports' = EncodeReports(rs, Len(fs), options) \o <<Report("complete", 100, options)>>
          /\ pc' = "done"
          /\ status' = "complete"
          /\ outputBlob' = "gif"
          /\ errorMessage' = ""
       \/ \E n \in 0 .. Len(fs) - 1 :
             /\ encoded' = EncodedFrames(fs, n)
             /\ reports' = EncodeReports(rs, n, options)
             /\ pc' = "failed"
             /\ status' = "complete"
             /\ outputBlob' = "gif"
             /\ errorMessage' = "failed"

\* lines 120-165 of processVideo and the rest of handleStartConversion, all
\* in one turn of the event loop: restore play, encode every frame, finish
RestoreAndEncode(fs, rs) ==
    /\ vPaused' = IF wasPlaying' THEN FALSE ELSE vPaused
    /\ \/ /\ encoded' = EncodedFrames(fs, Len(fs))
          /\ reports' = EncodeReports(rs, Len(fs), options) \o <<Report("complete", 100, options)>>
          /\ pc' = "done"
          /\ status' = "complete"
          /\ outputBlob' = "gif"
          /\ errorMessage' = ""
       \/ \E n \in 0 .. Len(fs) - 1 :
             \* quantize, applyPalette or writeFrame throws at frame n
             /\ encoded' = EncodedFrames(fs, n)
             /\ reports' = EncodeReports(rs, n, options)
             /\ pc' = "failed"
             /\ OverlayCatch("failed")

\* Overlay.handleStartConversion, up to processVideo's first await
handleStartConversion ==
    /\ status = "idle"
    /\ ~MicrotaskPending
    /\ lastOp' = Op("handleStartConversion", 0)
    /\ LET duration == endTime - startTime
           opts == [fps |-> fps, width |-> width, startTime |-> startTime, duration |-> duration]
       IN  IF RangeError(duration) # ""
             THEN /\ OverlayCatch(RangeError(duration))
                  /\ UNCHANGED <<videoVars, jobVars, vWriter, playingAtStart, seeksIssued>>
             ELSE /\ options' = opts
                  /\ playingAtStart' = ~vPaused
                  /\ i' = 0 /\ frames' = <<>> /\ encoded' = <<>> /\ seeksIssued' = 0
                  /\ reports' = IF hasVideo
                                   THEN <<Report("capturing", 0, opts), Report("capturing", 10, opts)>>
                                   ELSE <<Report("capturing", 0, opts)>>
                  /\ UNCHANGED <<hasVideo, videoWidth, videoHeight, vPaused, wasPlaying>>
                  /\ \/ /\ ~hasVideo
                        /\ pc' = "failed"
                        /\ OverlayCatch("video_not_found")
                        /\ UNCHANGED <<vCurrentTime, vSeeking, vWriter, seekedSince>>
                     \/ /\ hasVideo
                        \* canvas.getContext('2d') returns null
                        /\ pc' = "failed"
                        /\ OverlayCatch("no_canvas_context")
                        /\ UNCHANGED <<vCurrentTime, vSeeking, vWriter, seekedSince>>
                     \/ /\ hasVideo
                        /\ CaptureSeek(startTime)
                        /\ pc' = "seekStart"
                        /\ status' = "downloading"
                        /\ errorMessage' = ""
                        /\ outputBlob' = "null"
    /\ UNCHANGED <<extVars, selVars, fps, width>>

\* the video element completes its seek and fires 'seeked'; the one-shot
\* listener of a waiting processVideo resolves its promise
VideoSeeked ==
    /\ vSeeking
    /\ ~MicrotaskPending
    /\ vSeeking' = FALSE
    /\ seekedSince' = (pc \in InFlight)
    /\ lastOp' = Op("seeked", 0)
    /\ UNCHANGED <<extVars, selVars, panelVars, hasVideo, videoWidth, videoHeight, vCurrentTime, vPaused>>
    /\ UNCHANGED <<pc, options, i, frames, wasPlaying, encoded, reports, vWriter, playingAtStart, seeksIssued>>

\* the host page loads other media into the element while a seek is in
\* progress (YouTube navigates without a page load): the element drops the
\* seek and fires no 'seeked' for it
seekAborted ==
    /\ hasVideo
    /\ vSeeking
    /\ ~MicrotaskPending
    /\ vSeeking' = FALSE
    /\ vCurrentTime' = 0
    /\ lastOp' = Op("seekAborted", 0)
    /\ UNCHANGED <<extVars, selVars, panelVars, hasVideo, videoWidth, videoHeight, vPaused>>
    /\ UNCHANGED <<jobVars, vWriter, playingAtStart, seeksIssued>>

\* processVideo lines 86-106: after the seek to the start, pause and issue
\* the seek of frame 0 (or, with no frame to capture, go on to encoding)
AfterStartSeek ==
    /\ pc = "seekStart"
    /\ AwaitSeeked
    /\ lastOp' = Op("afterStartSeek", 0)
    /\ wasPlaying' = ~vPaused
    /\ i' = 0
    /\ UNCHANGED <<extVars, selVars, fps, width, hasVideo, videoWidth, videoHeight, options, frames, playingAtStart>>
    /\ IF 0 < TotalFrames(options)
          THEN /\ vPaused' = TRUE
               /\ CaptureSeek(TargetTime(options, 0))
               /\ seeksIssued' = seeksIssued + 1
               /\ pc' = "seekFrame"
               /\ reports' = Append(reports, Report("capturing", 20, options))
               /\ UNCHANGED <<status, errorMessage, outputBlob, encoded>>
          ELSE /\ RestoreAndEncode(frames, Append(reports, Report("capturing", 20, options)))
               /\ seekedSince' = FALSE
               /\ UNCHANGED <<vCurrentTime, vSeeking, vWriter, seeksIssued>>

\* processVideo lines 108-118 for frame i, then either the seek of frame
\* i + 1 or, after the last frame, lines 120-165
CaptureFrame ==
    /\ pc = "seekFrame"
    /\ AwaitSeeked
    /\ lastOp' = Op("captureFrame", i)
    /\ UNCHANGED <<extVars, selVars, fps, width, hasVideo, videoWidth, videoHeight, options, wasPlaying, playingAtStart>>
    /\ \/ \* drawImage or getImageData throws
          /\ pc' = "failed"
          /\ OverlayCatch("failed")
          /\ seekedSince' = FALSE
          /\ UNCHANGED <<vCurrentTime, vPaused, vSeeking, vWriter, i, frames, encoded, reports, seeksIssued>>
       \/ LET frame == [idx |-> i, target |-> TargetTime(options, i), at |-> vCurrentTime,
                        w |-> options.width, h |-> CanvasHeight(options),
                        notified |-> seekedSince, seekNo |-> seeksIssued]
              fs == Append(frames, frame)
              rs == Append(reports, CaptureProgress(options, i))
          IN  /\ frames' = fs
              /\ i' = i + 1
              /\ IF i + 1 < TotalFrames(options)
                    THEN /\ CaptureSeek(TargetTime(options, i + 1))
                         /\ seeksIssued' = seeksIssued + 1
                         /\ pc' = "seekFrame"
                         /\ reports' = rs
                         /\ UNCHANGED <<vPaused, status, errorMessage, outputBlob, encoded>>
                    ELSE /\ RestoreAndEncode(fs, rs)
                         /\ seekedSince' = FALSE
                         /\ UNCHANGED <<vCurrentTime, vSeeking, vWriter, seeksIssued>>

\* VideoPreview.seekToStart / seekToEnd / playSelection / pausePlayback; the
\* controls are rendered in every status of the panel
PreviewFrame == <<extVars, selVars, panelVars, hasVideo, videoWidth, videoHeight, jobVars, playingAtStart, seeksIssued>>

seekToStart ==
    /\ hasVideo /\ ~MicrotaskPending
    /\ vCurrentTime' = Sought(startTime)
    /\ vSeeking' = TRUE
    /\ vWriter' = "preview"
    /\ lastOp' = Op("seekToStart", 0)
    /\ UNCHANGED <<PreviewFrame, vPaused>>

seekToEnd ==
    /\ hasVideo /\ ~MicrotaskPending
    /\ vCurrentTime' = Sought(endTime)
    /\ vSeeking' = TRUE
    /\ vWriter' = "preview"
    /\ lastOp' = Op("seekToEnd", 0)
    /\ UNCHANGED <<PreviewFrame, vPaused>>

playSelection ==
    /\ hasVideo /\ ~MicrotaskPending
    /\ vPaused
    /\ vCurrentTime' = Sought(startTime)
    /\ vSeeking' = TRUE
    /\ vPaused' = FALSE
    /\ vWriter' = "preview"
    /\ lastOp' = Op("playSelection", 0)
    /\ UNCHANGED PreviewFrame

pausePlayback ==
    /\ hasVideo /\ ~MicrotaskPending
    /\ ~vPaused
    /\ vPaused' = TRUE
    /\ lastOp' = Op("pausePlayback", 0)
    /\ UNCHANGED <<PreviewFrame, vCurrentTime, vSeeking, vWriter>>

\* the "Try Again" and "Create Another" buttons
tryAgain ==
    /\ status = "error"
    /\ status' = "idle"
    /\ lastOp' = Op("tryAgain", 0)
    /\ UNCHANGED <<extVars, selVars, errorMessage, outputBlob, fps, width, videoVars, jobVars>>
    /\ UNCHANGED <<vWriter, playingAtStart, seeksIssued>>

createAnother ==
    /\ status = "complete"
    /\ status' = "idle"
    /\ outputBlob' = "null"
    /\ downloadCalled' = FALSE
    /\ lastOp' = Op("createAnother", 0)
    /\ UNCHANGED <<pageVars, selVars, errorMessage, fps, width, videoVars, jobVars>>
    /\ UNCHANGED <<vWriter, playingAtStart, seeksIssued>>

\* the "Download GIF" button, rendered while status is 'complete':
\* handleDownload saves the stored blob, or returns when there is none
handleDownload ==
    /\ status = "complete"
    /\ downloadCalled' = (downloadCalled \/ outputBlob # "null")
    /\ lastOp' = Op("handleDownload", 0)
    /\ UNCHANGED <<selVars, panelVars, videoVars, jobVars, vWriter, playingAtStart, seeksIssued>>
    /\ UNCHANGED pageVars

\* how far the playback position moves between two 'timeupdate' events
PlaybackStep == TicksPerSecond \div 2

\* the element plays on and fires 'timeupdate'; handleTimeUpdate stores the
\* time for the panel's display and does nothing to the element. At the end
\* of the media the element pauses itself.
timeupdate ==
    /\ hasVideo /\ ~MicrotaskPending
    /\ ~vPaused /\ ~vSeeking
    /\ vCurrentTime < videoDuration
    /\ vCurrentTime' = Min(vCurrentTime + PlaybackStep, videoDuration)
    /\ vPaused' = (vCurrentTime' = videoDuration)
    /\ lastOp' = Op("timeupdate", 0)
    /\ UNCHANGED <<PreviewFrame, vSeeking, vWriter>>

InitJob ==
    /\ videoDuration = Secs(ShortVideoSeconds)
    /\ \E sel \in JobSelections : startTime = sel[1] /\ endTime = sel[2]
    /\ dragging = "none"
    /\ status = "idle" /\ errorMessage = "" /\ outputBlob = "null"
    /\ fps \in FpsChoices
    /\ \E rc \in RasterCases : width = rc[1] /\ videoWidth = rc[2] /\ videoHeight = rc[3]
    /\ hasVideo \in BOOLEAN
    /\ vCurrentTime = 0 /\ vPaused \in BOOLEAN /\ vSeeking = FALSE
    /\ pc = "none" /\ options = NoOptions /\ i = 0 /\ frames = <<>>
    /\ wasPlaying = FALSE /\ encoded = <<>> /\ seekedSince = FALSE /\ reports = <<>>
    /\ lastOp = NoOp /\ vWriter = "none" /\ playingAtStart = FALSE /\ seeksIssued = 0
    /\ ExtIdle

NextJob ==
    \/ handleStartConversion
    \/ VideoSeeked
    \/ seekAborted
    \/ AfterStartSeek
    \/ CaptureFrame
    \/ seekToStart
    \/ seekToEnd
    \/ playSelection
    \/ pausePlayback
    \/ tryAgain
    \/ createAnother
    \/ handleDownload

SpecJob == InitJob /\ [][NextJob]_vars

\* the event loop runs a resolved continuation, and the video element
\* completes a seek it has not dropped
SpecJobFair ==
    /\ SpecJob
    /\ WF_vars(VideoSeeked)
    /\ WF_vars(AfterStartSeek)
    /\ WF_vars(CaptureFrame)

\* the panel's preview controls on a paused video: playback starts only
\* through Play Selection
InitPlay ==
    /\ InitJob
    /\ vPaused

NextPlay ==
    \/ playSelection
    \/ pausePlayback
    \/ seekToStart
    \/ seekToEnd
    \/ VideoSeeked
    \/ timeupdate

SpecPlay == InitPlay /\ [][NextPlay]_vars

(***************************************************************************)
(* Claims about conversion jobs (checked under SpecJob)                    *)
(***************************************************************************)
JobSteps == {"handleStartConversion", "afterStartSeek", "captureFrame"}

\* C2: a selection whose duration is <= 0 or > MAX_DURATION is rejected by
\* handleStartConversion with an error status and message, and processVideo
\* is never called for it: no job exists and no seek is issued.
C2_InvalidSelectionRejected ==
    (endTime - startTime <= 0 \/ endTime - startTime > MaxSpan) =>
        /\ pc = "none"
        /\ vWriter # "capture"
        /\ seeksIssued = 0
        /\ frames = <<>>
        /\ lastOp.op = "handleStartConversion" =>
              /\ status = "error"
              /\ errorMessage \in {"invalid_range", "too_long"}
              /\ outputBlob = "null"

\* handleStartConversion has rejected {start: 0, end: 9999 s}
C2_Witness ==
    /\ lastOp.op = "handleStartConversion"
    /\ startTime = 0
    /\ endTime = Secs(9999)
    /\ status = "error"
    /\ errorMessage = "too_long"
    /\ pc = "none"

\* C6: a job with start s, duration d and frame rate fps captures exactly
\* ceil(d * fps) frames, frame i with target s + i / fps, each of size
\* (width, round(width / aspect)).
C6_FrameCountTargetsSize ==
    LET n == Len(frames)
        df == options.duration * options.fps
    IN  /\ \A k \in 1 .. n :
              /\ frames[k].idx = k - 1
              /\ (frames[k].target - options.startTime) * options.fps = (k - 1) * TicksPerSecond
              /\ frames[k].w = options.width
              /\ 2 * frames[k].h * videoWidth > 2 * options.width * videoHeight - videoWidth
              /\ 2 * frames[k].h * videoWidth <= 2 * options.width * videoHeight + videoWidth
        /\ n >= 1 => (n - 1) * TicksPerSecond < df
        /\ pc = "done" =>
              /\ n * TicksPerSecond >= df
              /\ options.startTime = startTime
              /\ options.duration = endTime - startTime
              /\ options.fps = fps
              /\ options.width = width

\* a finished job whose frame count and canvas height were both rounded up
C6_Witness ==
    /\ pc = "done"
    /\ options.duration = 3
    /\ options.fps = 15
    /\ Len(frames) = 2
    /\ frames[2].target = options.startTime + 2
    /\ frames[2].h = 427

\* C7: frames are captured in strictly increasing timestamp order and are
\* written to the encoder in the order of their capture, none skipped or
\* duplicated, and none before the capture has finished.
C7_CaptureAndEncodeOrder ==
    /\ \A j, k \in 1 .. Len(frames) : j < k => frames[j].target < frames[k].target
    /\ Len(encoded) <= Len(frames)
    /\ \A k \in 1 .. Len(encoded) : encoded[k] = frames[k].idx
    /\ encoded # <<>> => pc \notin InFlight
    /\ pc = "done" => Len(encoded) = Len(frames)

C7_Witness ==
    /\ pc = "done"
    /\ Len(frames) >= 3
    /\ Len(encoded) = Len(frames)

\* C8: the pixels of frame N are read only after a seeked notification that
\* follows the issuing of frame N's seek, and the seek of frame N + 1 is not
\* issued before frame N has been rasterized.
C8_SeeksSequential ==
    /\ \A k \in 1 .. Len(frames) : frames[k].notified /\ frames[k].seekNo = k
    /\ seeksIssued \in {Len(frames), Len(frames) + 1}
    /\ pc = "seekFrame" => seeksIssued = Len(frames) + 1

\* the seek of the third frame has resolved and its pixels are about to be read
C8_Witness ==
    /\ pc = "seekFrame"
    /\ Len(frames) = 2
    /\ seeksIssued = 3
    /\ seekedSince
    /\ ~vSeeking

\* C9: when a job is over, completed or failed, the video is playing if and
\* only if it was playing when the job began.
C9_PlayStateRestored ==
    (pc \in {"done", "failed"} /\ lastOp.op \in JobSteps) => (~vPaused <=> playingAtStart)

\* C10: while a job is in flight only the capture loop writes currentTime.
C10_SingleWriter ==
    pc \in InFlight => vWriter = "capture"

\* the Download button is rendered and handleDownload has a blob to save
DownloadAvailable == status = "complete" /\ outputBlob # "null"

\* C11: when seeking, rasterizing or encoding throws, the job is aborted:
\* processVideo rejects, the panel ends in status 'error' with a message, and
\* no artifact is stored or offered for download.
C11_FailureAbortsJob ==
    pc = "failed" =>
        /\ outputBlob = "null"
        /\ ~DownloadAvailable
        /\ status \in {"error", "idle"}
        /\ lastOp.op \in JobSteps => (status = "error" /\ errorMessage # "")

\* the encoder threw after it had written a frame
C11_Witness ==
    /\ pc = "failed"
    /\ lastOp.op = "captureFrame"
    /\ Len(frames) >= 2
    /\ Len(encoded) = 1
    /\ status = "error"
    /\ outputBlob = "null"

\* C24: when a conversion completes successfully the download of the GIF is
\* started as part of completion, with no further user action: whenever
\* the last step taken is the job's completion, downloadBlob has been called.
C24_DownloadOnCompletion ==
    (pc = "done" /\ lastOp.op \in JobSteps /\ DownloadAvailable) => downloadCalled

\* C25: after Play Selection playback starts from the selection's start
\* time and is paused when it reaches the selection's end time: Play
\* Selection leaves the element playing at the start, and after a
\* 'timeupdate' was handled the element is not playing at or past the end.
C25_PlaySelectionStopsAtEnd ==
    /\ lastOp.op = "playSelection" => (~vPaused /\ vCurrentTime = Sought(startTime))
    /\ (lastOp.op = "timeupdate" /\ ~vPaused) => vCurrentTime < endTime

\* C12: every conversion job that is started eventually terminates, on
\* completion or on error.
C12_JobTerminates ==
    (pc \in InFlight) ~> (pc \in {"done", "failed"})

\* C13: within one job the reported percentages never decrease, stay within
\* 0..100, and reach 100 only in the final report of a successful job.
C13_ProgressMonotone ==
    LET n == Len(reports)
        scale == ProgressScale(options)
    IN  /\ \A k \in 1 .. n : 0 <= reports[k].num /\ reports[k].num <= 100 * scale
        /\ \A k \in 1 .. n - 1 : reports[k].num <= reports[k + 1].num
        /\ \A k \in 1 .. n : reports[k].num = 100 * scale => (k = n /\ pc = "done")
        /\ pc = "done" => (n >= 1 /\ reports[n].num = 100 * scale)

\* a finished job of three frames has reported 100 last
C13_Witness ==
    /\ pc = "done"
    /\ Len(frames) = 3
    /\ Len(reports) = 11
    /\ reports[Len(reports)] = [phase |-> "complete", num |-> 300]
    /\ reports[6].num = 40 * 3

(***************************************************************************)
(* SpecPanel: the content script and the panel's root element              *)
(*                                                                         *)
(* Two builds of the content script are in the repository: "auto"          *)
(* (content/index.tsx with components/Overlay.tsx) shows the panel by its  *)
(* own checks, "onDemand" (part_006 with part_003) shows it when the popup *)
(* sends OPEN_OVERLAY.  A page is "clipId" (/clip/<id>: clip id known,     *)
(* video id and times to be extracted), "clipTimes" (watch?v=&start=&end=: *)
(* everything in the address) or "watch" (not a clip).                     *)
(***************************************************************************)
Builds == {"auto", "onDemand"}
Pages == {"clipId", "clipTimes", "watch"}

\* handlers that may be suspended at an await at the same time
MaxCalls == 2
isYouTubeClipPage(p) == p \in {"clipId", "clipTimes"}

\* clipInfo.clipId && (!clipInfo.videoId || startTime === null || endTime === null)
NeedsExtraction(p) == p = "clipId"

DocFrame == <<selVars, panelVars, videoVars, jobVars, histVars, bridgeVars, msgVars, parseVars, downloadVars, auxVars>>

\* createElement, appendChild, overlayInjected = true, initOverlay
AppendRoot ==
    /\ created < MaxPanels
    /\ roots' = Append(roots, created + 1)
    /\ created' = created + 1
    /\ overlayInjected' = TRUE

\* index.tsx injectOverlay, up to its await or to its end
injectOverlay ==
    IF roots # <<>>
    THEN UNCHANGED <<roots, created, overlayInjected, suspended>>
    ELSE IF NeedsExtraction(href)
    THEN /\ suspended < MaxCalls
         /\ suspended' = suspended + 1
         /\ UNCHANGED <<roots, created, overlayInjected>>
    ELSE AppendRoot /\ UNCHANGED suspended

\* part_006 injectOverlay: no await between the lookup and the append
injectOverlayNow ==
    IF roots # <<>>
    THEN UNCHANGED <<roots, created, overlayInjected>>
    ELSE AppendRoot

\* getElementById finds the first element with the id
removeOverlay ==
    /\ roots' = IF roots = <<>> THEN roots ELSE Tail(roots)
    /\ overlayInjected' = FALSE

checkAndInjectOverlay ==
    IF isYouTubeClipPage(href) /\ ~overlayInjected
    THEN injectOverlay
    ELSE IF ~isYouTubeClipPage(href) /\ overlayInjected
    THEN removeOverlay /\ UNCHANGED <<created, suspended>>
    ELSE UNCHANGED <<roots, created, overlayInjected, suspended>>

\* the script's init(): the auto build checks the page and starts its two
\* observers, the onDemand build registers its message listener
init ==
    /\ ~started
    /\ started' = TRUE
    /\ IF build = "auto"
       THEN checkAndInjectOverlay /\ observing' = TRUE
       ELSE UNCHANGED <<roots, created, overlayInjected, suspended, observing>>
    /\ UNCHANGED <<build, href, lastUrl, checkTimeout, closing, fresh, lastShow, DocFrame>>

\* the page goes to another address without a page load; the auto build's
\* popstate/pushState/replaceState hooks arm the debounce timer
navigate(p) ==
    /\ started
    /\ p # href
    /\ href' = p
    /\ checkTimeout' = (build = "auto")
    /\ UNCHANGED <<build, started, overlayInjected, lastUrl, observing, roots, created>>
    /\ UNCHANGED <<suspended, closing, fresh, lastShow, DocFrame>>

\* the debounce timer of observeUrlChanges fires
urlCheck ==
    /\ checkTimeout
    /\ checkTimeout' = FALSE
    /\ IF href # lastUrl
       THEN lastUrl' = href /\ checkAndInjectOverlay
       ELSE UNCHANGED <<lastUrl, roots, created, overlayInjected, suspended>>
    /\ UNCHANGED <<build, started, href, observing, closing, fresh, lastShow, DocFrame>>

\* the MutationObserver callback of observeVideoPlayer, past its throttle,
\* with a video element on a clip page
playerMutation ==
    /\ build = "auto" /\ started /\ observing
    /\ isYouTubeClipPage(href) /\ ~overlayInjected
    /\ checkAndInjectOverlay
    /\ observing' = FALSE
    /\ UNCHANGED <<build, started, href, lastUrl, checkTimeout, closing, fresh, lastShow, DocFrame>>

\* index.tsx injectOverlay after waitForClipData: lines 97-123
injectResumed ==
    /\ build = "auto"
    /\ suspended > 0
    /\ suspended' = suspended - 1
    /\ AppendRoot
    /\ UNCHANGED <<build, started, href, lastUrl, checkTimeout, observing, closing, fresh, lastShow, DocFrame>>

\* the panel's close button: Overlay.tsx removes the root at once, part_003
\* removes it 300 ms later
handleClose ==
    /\ roots # <<>>
    /\ IF build = "auto"
       THEN roots' = Tail(roots) /\ UNCHANGED closing
       ELSE /\ Head(roots) \notin closing
            /\ closing' = closing \cup {Head(roots)}
            /\ UNCHANGED roots
    /\ fresh' = 0
    /\ lastShow' = "none"
    /\ UNCHANGED <<build, started, href, overlayInjected, lastUrl, checkTimeout, observing>>
    /\ UNCHANGED <<created, suspended, DocFrame>>

\* the timer of part_003's handleClose fires for the element it captured
closeTimer(r) ==
    /\ r \in closing
    /\ closing' = closing \ {r}
    /\ roots' = SelectSeq(roots, LAMBDA x : x # r)
    /\ UNCHANGED <<build, started, href, overlayInjected, lastUrl, checkTimeout, observing>>
    /\ UNCHANGED <<created, suspended, fresh, lastShow, DocFrame>>

\* part_006: an OPEN_OVERLAY message arrives; handleOpenOverlay runs to its
\* first await or to its answer
openOverlay ==
    /\ build = "onDemand" /\ started
    /\ IF ~isYouTubeClipPage(href)
       THEN /\ lastShow' = "failure"
            /\ UNCHANGED <<roots, created, overlayInjected, suspended, fresh>>
       ELSE IF NeedsExtraction(href)
       THEN /\ suspended < MaxCalls
            /\ suspended' = suspended + 1
            /\ fresh' = fresh + 1
            /\ UNCHANGED <<roots, created, overlayInjected, lastShow>>
       ELSE /\ injectOverlayNow
            /\ lastShow' = "success"
            /\ UNCHANGED <<suspended, fresh>>
    /\ UNCHANGED <<build, started, href, lastUrl, checkTimeout, observing, closing, DocFrame>>

\* part_006: handleOpenOverlay after the page-context request and the player
\* observation, which found the clip (found) or did not
openResumed(found, isFresh) ==
    /\ build = "onDemand"
    /\ suspended > 0
    /\ IF isFresh THEN fresh > 0 ELSE suspended > fresh
    /\ suspended' = suspended - 1
    /\ fresh' = IF isFresh THEN fresh - 1 ELSE fresh
    /\ IF found
       THEN /\ injectOverlayNow
            /\ lastShow' = IF isFresh THEN "success" ELSE lastShow
       ELSE /\ lastShow' = IF isFresh THEN "failure" ELSE lastShow
            /\ UNCHANGED <<roots, created, overlayInjected>>
    /\ UNCHANGED <<build, started, href, lastUrl, checkTimeout, observing, closing, DocFrame>>

InitPanel ==
    /\ build \in Builds
    /\ href \in Pages
    /\ lastUrl = href
    /\ started = FALSE /\ overlayInjected = FALSE /\ checkTimeout = FALSE
    /\ observing = FALSE /\ roots = <<>> /\ created = 0 /\ suspended = 0
    /\ closing = {} /\ fresh = 0 /\ lastShow = "none"
    /\ videoDuration = Secs(ShortVideoSeconds) /\ startTime = 0 /\ endTime = Secs(1)
    /\ dragging = "none" /\ fps = 10 /\ lastOp = NoOp
    /\ JobIdle
    /\ BridgeIdle /\ MsgIdle /\ ParseIdle /\ AuxIdle

NextPanel ==
    \/ init
    \/ \E p \in Pages : navigate(p)
    \/ urlCheck
    \/ playerMutation
    \/ injectResumed
    \/ handleClose
    \/ \E r \in 1 .. MaxPanels : closeTimer(r)
    \/ openOverlay
    \/ \E found \in BOOLEAN, isFresh \in BOOLEAN : openResumed(found, isFresh)

SpecPanel == InitPanel /\ [][NextPanel]_vars

\* timers fire and suspended handlers resume
SpecPanelFair ==
    /\ SpecPanel
    /\ WF_vars(init)
    /\ WF_vars(urlCheck)
    /\ WF_vars(injectResumed)
    /\ WF_vars(\E r \in 1 .. MaxPanels : closeTimer(r))
    /\ WF_vars(\E found \in BOOLEAN, isFresh \in BOOLEAN : openResumed(found, isFresh))

(***************************************************************************)
(* SpecCapture: the panels of SpecPanel, each with the conversion it has   *)
(* started on the page's one video element                                 *)
(***************************************************************************)
PanelJobFrame == <<baseVars, downloadVars, callVars, waitVars, offscreenVars>>

\* the Convert button of panel r, rendered while its status is 'idle' and
\* clickable while its root is in the document: processVideo issues the
\* seek to the start and awaits 'seeked'
convert(r) ==
    /\ \E k \in 1 .. Len(roots) : roots[k] = r
    /\ panelJob[r] = "none"
    /\ panelJob' = [panelJob EXCEPT ![r] = "seekStart"]
    /\ UNCHANGED PanelJobFrame

\* the 'seeked' event that the job of panel r awaits: after the seek to the
\* start the loop issues the seek of frame 0; after a frame's seek it
\* captures the frame and issues the next seek (more) or finishes
panelSeeked(r, more) ==
    /\ panelJob[r] \in InFlight
    /\ panelJob' = [panelJob EXCEPT ![r] =
                       IF panelJob[r] = "seekStart" \/ more THEN "seekFrame" ELSE "done"]
    /\ UNCHANGED PanelJobFrame

\* "Create Another" of panel r
panelReset(r) ==
    /\ \E k \in 1 .. Len(roots) : roots[k] = r
    /\ panelJob[r] = "done"
    /\ panelJob' = [panelJob EXCEPT ![r] = "none"]
    /\ UNCHANGED PanelJobFrame

NextCapture ==
    \/ NextPanel
    \/ \E r \in 1 .. MaxPanels : convert(r)
    \/ \E r \in 1 .. MaxPanels, more \in BOOLEAN : panelSeeked(r, more)
    \/ \E r \in 1 .. MaxPanels : panelReset(r)

SpecCapture == InitPanel /\ [][NextCapture]_vars

\* the panels whose job is in the capture loop, awaiting a seek
Capturing == {r \in 1 .. MaxPanels : panelJob[r] \in InFlight}

\* C26: at most one conversion job is capturing from the page's video
\* element at any time, for every sequence of convert, close-panel and
\* reopen-panel actions.
C26_SingleCapture == Cardinality(Capturing) <= 1

\* C27: whenever no handler of the content script is running or suspended,
\* overlayInjected is true exactly when a root element is in the document,
\* after any sequence of inject, navigation, close-button and remove.
C27_FlagMatchesDocument ==
    (build = "auto" /\ suspended = 0) => (overlayInjected <=> roots # <<>>)

\* C14: at most one element with id ytgif-overlay-root is in the document at
\* any time, whatever the interleaving of the triggers that call
\* injectOverlay.
C14_SingleRoot == Len(roots) <= 1

\* C15: after the page has left a clip page the panel is eventually torn
\* down, without the user closing it.
C15_NavigationTearsDown ==
    (~isYouTubeClipPage(href) /\ roots # <<>>) ~> (isYouTubeClipPage(href) \/ roots = <<>>)

\* C16: a show request made after the panel was closed, and answered with
\* success, leaves a panel in the document once the close has run its course.
C16_ShowAfterClose ==
    (lastShow = "success" /\ closing = {}) => roots # <<>>

(***************************************************************************)
(* SpecBridge: requestYouTubeDataFromPage                                  *)
(*                                                                         *)
(* A window message is "REQUEST" (type YTGIF_REQUEST_DATA), a response of  *)
(* type YTGIF_DATA_RESPONSE whose data holds a video id ("RESPONSE_ID"),   *)
(* holds videoId null ("RESPONSE_NULL") or is missing ("RESPONSE_BARE"),   *)
(* a message of another type ("OTHER"), a message whose data is null       *)
(* ("NULL"), or a message from another window ("FOREIGN").                 *)
(***************************************************************************)
\* requestYouTubeDataFromPage(timeout = 3000), in seconds
BridgeTimeout == 3
\* the clock stops here
MaxClock == 7
\* window messages posted and not yet dispatched
MaxInbox == 1
\* calls of requestYouTubeDataFromPage
MaxRequests == 2

Responses == {"RESPONSE_ID", "RESPONSE_NULL", "RESPONSE_BARE"}
PageMessages == Responses \cup {"OTHER", "NULL", "FOREIGN"}

\* event.data.data of a response: {videoId: null} is the not-found value
ResponseData(m) ==
    CASE m = "RESPONSE_ID" -> "videoId"
      [] m = "RESPONSE_NULL" -> "notFound"
      [] m = "RESPONSE_BARE" -> "undefined"

BridgeFrame == <<selVars, panelVars, videoVars, jobVars, histVars, docVars, msgVars, parseVars, downloadVars, auxVars>>

\* resolve(value): only the first call settles the promise
Resolve(value) ==
    /\ resolveCalls' = resolveCalls + 1
    /\ IF promise = "pending"
       THEN /\ promise' = "resolved"
            /\ result' = value
            /\ settledAt' = clock
            /\ outcomes' = Append(outcomes, value)
       ELSE UNCHANGED <<promise, result, settledAt, outcomes>>

\* messageHandler on a typed response, leaving the timer armed
onResponse_keepTimer(m) ==
    /\ listening' = FALSE
    /\ firstResponse' = IF firstResponse = "none" THEN ResponseData(m) ELSE firstResponse
    /\ Resolve(ResponseData(m))
    /\ UNCHANGED <<timerArmed, handlerThrew>>

\* messageHandler on a typed response: lines 95-99
onResponse(m) ==
    /\ timerArmed' = FALSE
    /\ listening' = FALSE
    /\ firstResponse' = IF firstResponse = "none" THEN ResponseData(m) ELSE firstResponse
    /\ Resolve(ResponseData(m))
    /\ UNCHANGED handlerThrew

\* messageHandler: lines 92-101.  Reading event.data.type of a null message
\* throws inside the listener, which the promise does not see
messageHandler(m) ==
    IF ~listening \/ m = "FOREIGN"
    THEN UNCHANGED <<listening, timerArmed, promise, result, resolveCalls, firstResponse,
                     settledAt, handlerThrew, outcomes>>
    ELSE IF m = "NULL"
    THEN /\ handlerThrew' = TRUE
         /\ UNCHANGED <<listening, timerArmed, promise, result, resolveCalls, firstResponse,
                        settledAt, outcomes>>
    ELSE IF m \in Responses
    THEN onResponse(m)
    ELSE UNCHANGED <<listening, timerArmed, promise, result, resolveCalls, firstResponse,
                     settledAt, handlerThrew, outcomes>>

\* requestYouTubeDataFromPage: lines 90-116, the promise executor
requestYouTubeDataFromPage ==
    /\ promise \in {"none", "resolved"}
    /\ requests < MaxRequests
    /\ clock + BridgeTimeout <= MaxClock
    /\ Len(inbox) < MaxInbox
    /\ requests' = requests + 1
    /\ promise' = "pending"
    /\ result' = "none"
    /\ resolveCalls' = 0
    /\ firstResponse' = "none"
    /\ handlerThrew' = FALSE
    /\ timerArmed' = TRUE
    /\ deadline' = clock + BridgeTimeout
    /\ listening' = TRUE
    /\ inbox' = Append(inbox, "REQUEST")
    /\ UNCHANGED <<clock, bridgeInjected, settledAt, outcomes, BridgeFrame>>

\* the window dispatches its oldest message: first to the listener of the
\* script in the page context (lines 63-76), which answers a request with
\* the video id it finds or with videoId null, then to messageHandler
dispatchMessage(found) ==
    /\ inbox # <<>>
    /\ LET m == Head(inbox)
       IN  /\ inbox' = IF m = "REQUEST" /\ bridgeInjected
                       THEN Append(Tail(inbox), IF found THEN "RESPONSE_ID" ELSE "RESPONSE_NULL")
                       ELSE Tail(inbox)
           /\ messageHandler(m)
    /\ UNCHANGED <<clock, bridgeInjected, deadline, requests, BridgeFrame>>

\* the page, or another script in it, posts a message to the window
pagePosts(m) ==
    /\ Len(inbox) < MaxInbox
    /\ inbox' = Append(inbox, m)
    /\ UNCHANGED <<clock, bridgeInjected, promise, listening, timerArmed, deadline, result>>
    /\ UNCHANGED <<requests, resolveCalls, firstResponse, settledAt, handlerThrew, outcomes, BridgeFrame>>

\* the timeout callback: lines 104-108
timeoutFires ==
    /\ timerArmed
    /\ clock = deadline
    /\ timerArmed' = FALSE
    /\ listening' = FALSE
    /\ Resolve("notFound")
    /\ UNCHANGED <<clock, bridgeInjected, inbox, deadline, requests, firstResponse, handlerThrew, BridgeFrame>>

\* a second passes; a timer that is due fires first
tick ==
    /\ clock < MaxClock
    /\ ~(timerArmed /\ clock = deadline)
    /\ clock' = clock + 1
    /\ UNCHANGED <<bridgeInjected, inbox, promise, listening, timerArmed, deadline, result>>
    /\ UNCHANGED <<requests, resolveCalls, firstResponse, settledAt, handlerThrew, outcomes, BridgeFrame>>

InitBridge ==
    /\ bridgeInjected \in BOOLEAN
    /\ clock = 0 /\ inbox = <<>> /\ promise = "none"
    /\ listening = FALSE /\ timerArmed = FALSE /\ deadline = 0 /\ result = "none"
    /\ requests = 0 /\ resolveCalls = 0 /\ firstResponse = "none" /\ settledAt = 0
    /\ handlerThrew = FALSE /\ outcomes = <<>>
    /\ videoDuration = Secs(ShortVideoSeconds) /\ startTime = 0 /\ endTime = Secs(1)
    /\ dragging = "none" /\ fps = 10 /\ lastOp = NoOp
    /\ JobIdle
    /\ DocIdle /\ MsgIdle /\ ParseIdle /\ AuxIdle

NextBridge ==
    \/ requestYouTubeDataFromPage
    \/ \E found \in BOOLEAN : dispatchMessage(found)
    \/ \E m \in PageMessages : pagePosts(m)
    \/ timeoutFires
    \/ tick

SpecBridge == InitBridge /\ [][NextBridge]_vars

\* C17: requestYouTubeDataFromPage never rejects and settles exactly once, no
\* later than its timeout: with the data of the typed response its listener
\* received before the deadline, otherwise with {videoId: null} at the
\* deadline; once settled, its listener and its timer are gone.
C17_BridgeSettlesOnce ==
    /\ promise \in {"none", "pending", "resolved"}
    /\ resolveCalls <= 1
    /\ promise = "pending" =>
          /\ listening /\ timerArmed /\ resolveCalls = 0
          /\ clock <= deadline
    /\ promise = "resolved" =>
          /\ ~listening /\ ~timerArmed /\ resolveCalls = 1
          /\ settledAt <= deadline
          /\ IF firstResponse # "none"
             THEN result = firstResponse
             ELSE result = "notFound" /\ settledAt = deadline

\* one call was answered by the page before its deadline, the next one ran
\* into its timeout after a null message had made its listener throw
C17_Witness ==
    /\ outcomes = <<"videoId", "notFound">>
    /\ promise = "resolved"
    /\ firstResponse = "none"
    /\ clock > deadline
    /\ handlerThrew

(***************************************************************************)
(* SpecCalls: several requestYouTubeDataFromPage calls pending together    *)
(* (two OPEN_OVERLAY messages, or two triggers of injectOverlay, each      *)
(* awaiting its own call)                                                  *)
(***************************************************************************)
CallFrame == <<baseVars, downloadVars, captureVars, waitVars, offscreenVars>>

\* extractYouTubeData in the page context: a video id or null
PageData == {"found", "null"}

\* requestYouTubeDataFromPage, call c: arm the timer, register the call's
\* message listener, post YTGIF_REQUEST_DATA
requestData(c) ==
    /\ calls[c].state = "none"
    /\ calls' = [calls EXCEPT ![c].state = "pending"]
    /\ channel' = Append(channel, [type |-> "YTGIF_REQUEST_DATA", of |-> c, data |-> "none"])
    /\ UNCHANGED CallFrame

\* the listener of the page-context script, when the script was injected:
\* answer a request with the data extracted now
pageListener(m, d) ==
    IF bridgeInjected /\ m.type = "YTGIF_REQUEST_DATA"
    THEN <<[type |-> "YTGIF_DATA_RESPONSE", of |-> m.of, data |-> d]>>
    ELSE <<>>

\* messageHandler of one call: a YTGIF_DATA_RESPONSE clears the timer,
\* removes the listener and resolves the promise with the message's data
callHandler(call, m) ==
    IF call.state = "pending" /\ m.type = "YTGIF_DATA_RESPONSE"
    THEN [state |-> "resolved", data |-> m.data, by |-> m.of]
    ELSE call

\* the window dispatches its oldest message to every registered listener
deliver(d) ==
    /\ channel # <<>>
    /\ LET m == Head(channel)
       IN  /\ calls' = [c \in 1 .. MaxCallers |-> callHandler(calls[c], m)]
           /\ channel' = Tail(channel) \o pageListener(m, d)
    /\ UNCHANGED CallFrame

\* the timer of call c fires: remove the listener, resolve with videoId null
requestTimeout(c) ==
    /\ calls[c].state = "pending"
    /\ calls' = [calls EXCEPT ![c] = [state |-> "resolved", data |-> "null", by |-> 0]]
    /\ UNCHANGED <<channel, CallFrame>>

InitCalls == InitBridge

NextCalls ==
    \/ \E c \in 1 .. MaxCallers : requestData(c)
    \/ \E d \in PageData : deliver(d)
    \/ \E c \in 1 .. MaxCallers : requestTimeout(c)

SpecCalls == InitCalls /\ [][NextCalls]_vars

\* C28: a pending requestYouTubeDataFromPage call is resolved only by the
\* response to its own request (or by its own timer): of two pending calls
\* each resolves with the reply to its own request.
C28_OwnResponse ==
    \A c \in 1 .. MaxCallers :
        (calls[c].state = "resolved" /\ calls[c].by # 0) => calls[c].by = c

(***************************************************************************)
(* SpecWait: waitForClipData and extractClipInfoFromPage                   *)
(*                                                                         *)
(* A property of a Partial<YouTubeClipInfo> is "undefined" (not set),      *)
(* "null", or a value; a time is the value 0 ("zero") or another number    *)
(* ("value").  What the page offers to each extraction method at a poll is *)
(* chosen by the environment.                                              *)
(***************************************************************************)
WaitFrame == <<baseVars, downloadVars, captureVars, callVars, offscreenVars>>

\* waitForYouTubeData: poll interval and timeout; waitForClipData: poll
\* interval, and the timeout injectOverlay passes, in milliseconds
PlayerResponsePoll == 100
PlayerResponseTimeout == 3000
ClipPoll == 200
ClipTimeout == 3000

Partial(v, s, e) == [videoId |-> v, startTime |-> s, endTime |-> e]

\* Object.assign(info, source): every property the source has replaces
\* the one of info
Assign(info, src) ==
    [f \in {"videoId", "startTime", "endTime"} |->
        IF src[f] # "undefined" THEN src[f] ELSE info[f]]

\* extractFromVideoPlayer: null, or an object with the video id it found
PlayerInfos == {EmptyInfo, Partial("value", "undefined", "undefined")}

\* extractFromCurrentUrl: null without v, start and end parameters, else an
\* object with all three properties, null for a missing parameter
UrlInfos ==
    {EmptyInfo} \cup
    ({Partial(v, s, e) : v \in {"value", "null"}, s \in {"zero", "value", "null"},
                         e \in {"value", "null"}}
        \ {Partial("null", "null", "null")})

\* extractFromPlayerResponse: null, or an object with videoId (or null)
ResponseInfos == {EmptyInfo} \cup {Partial(v, "undefined", "undefined") : v \in {"value", "null"}}

\* findClipData: null, the three properties of a clipConfig or
\* clipSectionRenderer (a time of 0 ms gives null), or the videoId of a
\* videoDetails object
ClipDataInfos ==
    {EmptyInfo} \cup
    {Partial(v, s, e) : v \in {"value", "null"}, s \in {"value", "null"}, e \in {"value", "null"}} \cup
    {Partial(v, "undefined", "undefined") : v \in {"value", "null"}}

\* extractClipTimesFromUI: null, or 0 and the video element's duration
UiInfos == {EmptyInfo, Partial("undefined", "zero", "value")}

\* !x for a property
Falsy(x) == x \in {"undefined", "null", "zero"}

\* extractClipInfoFromPage
extractClipInfoFromPage(clipId, player, url, response, data, ui) ==
    LET i1 == Assign(EmptyInfo, player)
        i2 == Assign(i1, url)
        i3 == Assign(i2, response)
        i4 == Assign(i3, data)
    IN  IF clipId /\ Falsy(i4.startTime) THEN Assign(i4, ui) ELSE i4

\* info.videoId && info.startTime !== null && info.endTime !== null
EnoughInfo(info) ==
    /\ ~Falsy(info.videoId)
    /\ info.startTime # "null"
    /\ info.endTime # "null"

\* waitForClipData is called and starts waitForYouTubeData(3000)
waitForClipData(clipId) ==
    /\ waitPc = "idle"
    /\ waitPc' = "waitForYouTubeData"
    /\ waitClipId' = clipId
    /\ UNCHANGED <<waitElapsed, waitInfo, WaitFrame>>

\* one interval callback of waitForYouTubeData: resolve when
\* ytInitialPlayerResponse.videoDetails is there or the timeout has passed;
\* waitForClipData then notes its start time and arms its own interval
playerResponsePoll(available) ==
    /\ waitPc = "waitForYouTubeData"
    /\ LET now == waitElapsed + PlayerResponsePoll
       IN  IF available \/ now > PlayerResponseTimeout
           THEN waitPc' = "polling" /\ waitElapsed' = 0
           ELSE waitPc' = waitPc /\ waitElapsed' = now
    /\ UNCHANGED <<waitClipId, waitInfo, WaitFrame>>

\* one interval callback of waitForClipData
clipPoll(player, url, response, data, ui) ==
    /\ waitPc = "polling"
    /\ LET now == waitElapsed + ClipPoll
           info == extractClipInfoFromPage(waitClipId, player, url, response, data, ui)
       IN  /\ waitElapsed' = now
           /\ IF EnoughInfo(info) \/ now > ClipTimeout
              THEN waitPc' = "resolved" /\ waitInfo' = info
              ELSE UNCHANGED <<waitPc, waitInfo>>
    /\ UNCHANGED <<waitClipId, WaitFrame>>

InitWait ==
    /\ videoDuration = Secs(ShortVideoSeconds) /\ startTime = 0 /\ endTime = Secs(1)
    /\ dragging = "none" /\ fps = 10 /\ lastOp = NoOp
    /\ JobIdle
    /\ DocIdle /\ BridgeIdle /\ MsgIdle /\ ParseIdle /\ AuxIdle

NextWait ==
    \/ \E clipId \in BOOLEAN : waitForClipData(clipId)
    \/ \E available \in BOOLEAN : playerResponsePoll(available)
    \/ \E player \in PlayerInfos, url \in UrlInfos, response \in ResponseInfos,
          data \in ClipDataInfos, ui \in UiInfos : clipPoll(player, url, response, data, ui)

SpecWait == InitWait /\ [][NextWait]_vars

\* the info has a video id, a start time and an end time
CompleteInfo ==
    /\ waitInfo.videoId = "value"
    /\ waitInfo.startTime \in {"zero", "value"}
    /\ waitInfo.endTime \in {"zero", "value"}

\* C29: waitForClipData resolves before its timeout only when the extracted
\* info contains a video id and both a start time and an end time;
\* otherwise it keeps polling and resolves at the timeout with what it has.
C29_EarlyOnlyWhenComplete ==
    (waitPc = "resolved" /\ waitElapsed <= ClipTimeout) => CompleteInfo

(***************************************************************************)
(* SpecOffscreen: the callers of setupOffscreenDocument in the service     *)
(* worker (the call at start-up, the onInstalled listener, the handling of *)
(* INIT_FFMPEG and CONVERT_VIDEO messages)                                 *)
(***************************************************************************)
OffscreenFrame == <<baseVars, downloadVars, captureVars, callVars, waitVars>>

\* waitForOffscreenReady's maxAttempts
MaxAttempts == 10

\* setupOffscreenDocument, call c, up to its first await
setupOffscreenDocument(c) ==
    /\ setupPc[c] = "idle"
    /\ setupPc' = [setupPc EXCEPT ![c] =
                      IF offscreenDocumentCreated THEN "done" ELSE "getContexts"]
    /\ UNCHANGED <<offscreenDocumentCreated, offscreenDoc, attempts, busyCreates, OffscreenFrame>>

\* chrome.runtime.getContexts resolves for call c, listing an offscreen
\* document (seen) or none: an existing document is listed, one being
\* created may or may not be.  With a document listed the call sets the flag
\* and returns; with none it invokes chrome.offscreen.createDocument, which
\* the browser rejects while it has or is creating a document
getContextsResolved(c, seen) ==
    /\ setupPc[c] = "getContexts"
    /\ offscreenDoc = "exists" => seen
    /\ offscreenDoc = "none" => ~seen
    /\ IF seen
       THEN /\ offscreenDocumentCreated' = TRUE
            /\ setupPc' = [setupPc EXCEPT ![c] = "done"]
            /\ UNCHANGED <<offscreenDoc, busyCreates>>
       ELSE IF offscreenDoc = "none"
       THEN /\ offscreenDoc' = "creating"
            /\ setupPc' = [setupPc EXCEPT ![c] = "createDocument"]
            /\ UNCHANGED <<offscreenDocumentCreated, busyCreates>>
       ELSE /\ busyCreates' = busyCreates + 1
            /\ setupPc' = [setupPc EXCEPT ![c] = "failed"]
            /\ UNCHANGED <<offscreenDocumentCreated, offscreenDoc>>
    /\ UNCHANGED <<attempts, OffscreenFrame>>

\* createDocument resolves for call c, which goes on to waitForOffscreenReady
documentCreated(c) ==
    /\ setupPc[c] = "createDocument"
    /\ offscreenDoc' = "exists"
    /\ setupPc' = [setupPc EXCEPT ![c] = "waitForOffscreenReady"]
    /\ UNCHANGED <<offscreenDocumentCreated, attempts, busyCreates, OffscreenFrame>>

\* one PING of waitForOffscreenReady is answered (ok) or not; after
\* maxAttempts failures the call throws
ping(c, ok) ==
    /\ setupPc[c] = "waitForOffscreenReady"
    /\ IF ok
       THEN /\ offscreenDocumentCreated' = TRUE
            /\ setupPc' = [setupPc EXCEPT ![c] = "done"]
            /\ UNCHANGED attempts
       ELSE /\ attempts' = [attempts EXCEPT ![c] = @ + 1]
            /\ setupPc' = [setupPc EXCEPT ![c] =
                              IF attempts[c] + 1 >= MaxAttempts THEN "failed" ELSE @]
            /\ UNCHANGED offscreenDocumentCreated
    /\ UNCHANGED <<offscreenDoc, busyCreates, OffscreenFrame>>

\* the service worker starts, with or without an offscreen document left
\* by an earlier life of the worker
InitOffscreen ==
    /\ offscreenDoc \in {"none", "exists"}
    /\ offscreenDocumentCreated = FALSE
    /\ setupPc = [c \in 1 .. MaxSetups |-> "idle"]
    /\ attempts = [c \in 1 .. MaxSetups |-> 0]
    /\ busyCreates = 0
    /\ videoDuration = Secs(ShortVideoSeconds) /\ startTime = 0 /\ endTime = Secs(1)
    /\ dragging = "none" /\ fps = 10 /\ lastOp = NoOp
    /\ JobIdle
    /\ DocIdle /\ BridgeIdle /\ MsgIdle /\ ParseIdle
    /\ DownloadIdle /\ CaptureIdle /\ CallIdle /\ WaitIdle

NextOffscreen ==
    \/ \E c \in 1 .. MaxSetups : setupOffscreenDocument(c)
    \/ \E c \in 1 .. MaxSetups, seen \in BOOLEAN : getContextsResolved(c, seen)
    \/ \E c \in 1 .. MaxSetups : documentCreated(c)
    \/ \E c \in 1 .. MaxSetups, ok \in BOOLEAN : ping(c, ok)

SpecOffscreen == InitOffscreen /\ [][NextOffscreen]_vars

\* C30: for every interleaving of the callers of setupOffscreenDocument,
\* chrome.offscreen.createDocument is invoked at most once while an
\* offscreen document exists or is being created: it is never invoked when
\* the browser already has a document or is creating one.
C30_SingleCreate == busyCreates = 0

(***************************************************************************)
(* SpecMsg: the chrome.runtime.onMessage listeners                         *)
(***************************************************************************)
\* the message types each listener has a branch for
KnownTypes(c) ==
    CASE c = "background" -> {"CLIP_DETECTED", "START_CONVERSION", "DOWNLOAD_GIF",
                              "INIT_FFMPEG", "CONVERT_VIDEO"}
      [] c = "offscreen" -> {"INIT_FFMPEG", "CONVERT_VIDEO", "PING"}
      [] c = "content" -> {"OPEN_OVERLAY"}

MessageTypes == UNION {KnownTypes(c) : c \in Contexts} \cup {"SOMETHING_ELSE"}
Senders == {"page", "popup", "offscreen"}

MsgFrame == <<selVars, panelVars, videoVars, jobVars, histVars, docVars, bridgeVars, parseVars, downloadVars, auxVars>>

Answer(c, reply) ==
    /\ answered' = [answered EXCEPT ![c] =
                       [type |-> pending[c].type, sender |-> pending[c].sender, reply |-> reply]]
    /\ pending' = [pending EXCEPT ![c] = NoMessage]

\* a context sends a message of some type to a listener that is free
sendMessage(c, t, from) ==
    /\ pending[c] = NoMessage
    /\ pending' = [pending EXCEPT ![c] = [type |-> t, sender |-> from]]
    /\ answered' = [answered EXCEPT ![c] = NoAnswer]
    /\ UNCHANGED MsgFrame

\* background/index.ts: the listener, handleMessage and the sendResponse
\* that follows it; ok tells whether the operation behind the message
\* (offscreen setup and forwarding, reading the blob) went well
backgroundOnMessage(ok) ==
    LET m == pending["background"]
    IN  /\ m # NoMessage
        /\ IF m.sender = "offscreen"
           THEN Answer("background", "failure")
           ELSE IF m.type \in {"CLIP_DETECTED", "START_CONVERSION"}
           THEN Answer("background", "success")
           ELSE IF m.type \in {"DOWNLOAD_GIF", "INIT_FFMPEG", "CONVERT_VIDEO"}
           THEN Answer("background", IF ok THEN "success" ELSE "failure")
           ELSE Answer("background", "failure")
        /\ UNCHANGED MsgFrame

\* part_007: the offscreen document's listener and handleMessage
offscreenOnMessage(ok) ==
    LET m == pending["offscreen"]
    IN  /\ m # NoMessage
        /\ IF m.type \in {"INIT_FFMPEG", "CONVERT_VIDEO"}
           THEN Answer("offscreen", IF ok THEN "success" ELSE "failure")
           ELSE IF m.type = "PING"
           THEN Answer("offscreen", "success")
           ELSE Answer("offscreen", "failure")
        /\ UNCHANGED MsgFrame

\* part_006: the content script's listener answers OPEN_OVERLAY with what
\* handleOpenOverlay returns; for any other type it returns undefined
\* without calling sendResponse, and the sender's channel closes
contentOnMessage(ok) ==
    LET m == pending["content"]
    IN  /\ m # NoMessage
        /\ IF m.type = "OPEN_OVERLAY"
           THEN Answer("content", IF ok THEN "success" ELSE "failure")
           ELSE Answer("content", "closed")
        /\ UNCHANGED MsgFrame

InitMsg ==
    /\ MsgIdle
    /\ videoDuration = Secs(ShortVideoSeconds) /\ startTime = 0 /\ endTime = Secs(1)
    /\ dragging = "none" /\ fps = 10 /\ lastOp = NoOp
    /\ JobIdle
    /\ DocIdle /\ BridgeIdle /\ ParseIdle /\ AuxIdle

NextMsg ==
    \/ \E c \in Contexts, t \in MessageTypes, from \in Senders : sendMessage(c, t, from)
    \/ \E ok \in BOOLEAN : backgroundOnMessage(ok)
    \/ \E ok \in BOOLEAN : offscreenOnMessage(ok)
    \/ \E ok \in BOOLEAN : contentOnMessage(ok)

SpecMsg == InitMsg /\ [][NextMsg]_vars

\* C18: a listener that was handed a message of a type it has no branch for
\* answers its sender with a failure ({success: false, error}).
C18_UnknownTypeAnswered ==
    \A c \in Contexts :
        (answered[c] # NoAnswer /\ answered[c].type \notin KnownTypes(c))
            => answered[c].reply = "failure"

(***************************************************************************)
(* Strings, parseInt and the regular expressions of youtubeParser.ts       *)
(*                                                                         *)
(* A string is a sequence of tokens: single characters where the code      *)
(* looks at characters (digits, h, m, s and the punctuation of an          *)
(* address), whole words for the scheme, host names and path segments.     *)
(***************************************************************************)
DigitChars == <<"0", "1", "2", "3", "4", "5", "6", "7", "8", "9">>
Digits == {DigitChars[k] : k \in 1 .. 10}
DigitValue(c) == (CHOOSE k \in 1 .. 10 : DigitChars[k] = c) - 1

RECURSIVE DigitsValue(_)
DigitsValue(ds) ==
    IF ds = <<>> THEN 0
    ELSE DigitsValue(SubSeq(ds, 1, Len(ds) - 1)) * 10 + DigitValue(ds[Len(ds)])

\* the decimal digits of n >= 0, as a template literal writes them
RECURSIVE Decimal(_)
Decimal(n) ==
    IF n < 10 THEN <<DigitChars[n + 1]>>
    ELSE Decimal(n \div 10) \o <<DigitChars[(n % 10) + 1]>>

\* the character at position p, "$" past the end
CharAt(str, p) == IF p >= 1 /\ p <= Len(str) THEN str[p] ELSE "$"

IsDigitRun(str, p, n) == \A k \in p .. p + n - 1 : CharAt(str, k) \in Digits

\* the value of the first digit only
parseInt_firstDigit(str) ==
    IF CharAt(str, 1) \in Digits THEN DigitValue(str[1]) ELSE NaN

\* parseInt(str, 10): the value of the leading digits, NaN without any
parseInt(str) ==
    LET lens == {n \in 1 .. Len(str) : IsDigitRun(str, 1, n)}
    IN  IF lens = {} THEN NaN
        ELSE DigitsValue(SubSeq(str, 1, CHOOSE n \in lens : \A k \in lens : k <= n))

\* str.match(/(\d+)X/)[1], X being what may follow: the leftmost start, and
\* from there the longest run of digits that is followed by a character of
\* follow (the engine gives digits back one at a time); <<>> without a match
MatchDigits(str, follow) ==
    LET cands == {pn \in (1 .. Len(str)) \X (1 .. Len(str)) :
                     /\ pn[1] + pn[2] - 1 <= Len(str)
                     /\ IsDigitRun(str, pn[1], pn[2])
                     /\ CharAt(str, pn[1] + pn[2]) \in follow}
    IN  IF cands = {} THEN <<>>
        ELSE LET p == CHOOSE a \in {pn[1] : pn \in cands} :
                          \A b \in {pn[1] : pn \in cands} : a <= b
                 n == CHOOSE a \in {pn[2] : pn \in {c \in cands : c[1] = p}} :
                          \A b \in {pn[2] : pn \in {c \in cands : c[1] = p}} : b <= a
             IN  SubSeq(str, p, p + n - 1)

TimeChars == Digits \cup {"h", "m", "s", "$"}

\* the string "<h>h<m>m<s>s"
TimeString(h, m, s) == Decimal(h) \o <<"h">> \o Decimal(m) \o <<"m">> \o Decimal(s) \o <<"s">>

\* youtubeParser.ts parseTimeString, lines 108-128
parseTimeString(str) ==
    LET t == IF str # <<>> /\ str[Len(str)] = "s" THEN SubSeq(str, 1, Len(str) - 1) ELSE str
        hourMatch == MatchDigits(t, {"h"})
        minMatch == MatchDigits(t, {"m"})
        secMatch == MatchDigits(t, TimeChars \ {"h", "m"})
    IN  IF t # <<>> /\ IsDigitRun(t, 1, Len(t))
        THEN parseInt(t)
        ELSE (IF hourMatch # <<>> THEN parseInt(hourMatch) * 3600 ELSE 0)
             + (IF minMatch # <<>> THEN parseInt(minMatch) * 60 ELSE 0)
             + (IF secMatch # <<>> THEN parseInt(secMatch) ELSE 0)

(***************************************************************************)
(* SpecTime: time strings written from hours, minutes and seconds          *)
(***************************************************************************)
\* largest hour, minute or second component
MaxComponent == 11

ParseFrame == <<selVars, panelVars, videoVars, jobVars, histVars, docVars, bridgeVars, msgVars, downloadVars, auxVars>>

writeTimeString ==
    /\ timeStr = <<>>
    /\ timeStr' = TimeString(hms[1], hms[2], hms[3])
    /\ UNCHANGED <<hms, seconds, address, clipInfo, ParseFrame>>

parseTime ==
    /\ timeStr # <<>>
    /\ seconds = NullTime
    /\ seconds' = parseTimeString(timeStr)
    /\ UNCHANGED <<hms, timeStr, address, clipInfo, ParseFrame>>

InitTime ==
    /\ hms \in ((0 .. MaxComponent) \X (0 .. MaxComponent) \X (0 .. MaxComponent)) \ {<<0, 0, 0>>}
    /\ timeStr = <<>> /\ seconds = NullTime
    /\ address = <<>> /\ clipInfo = NoInfo
    /\ videoDuration = Secs(ShortVideoSeconds) /\ startTime = 0 /\ endTime = Secs(1)
    /\ dragging = "none" /\ fps = 10 /\ lastOp = NoOp
    /\ JobIdle
    /\ DocIdle /\ BridgeIdle /\ MsgIdle /\ AuxIdle

NextTime ==
    \/ writeTimeString
    \/ parseTime

SpecTime == InitTime /\ [][NextTime]_vars

\* C19: for h, m, s >= 0 that are not all zero, parsing "<h>h<m>m<s>s" gives
\* h*3600 + m*60 + s, multi-digit components included.
C19_TimeStringRoundTrip ==
    seconds # NullTime => seconds = hms[1] * 3600 + hms[2] * 60 + hms[3]

(***************************************************************************)
(* SpecUrl: parseYouTubeUrl                                                *)
(*                                                                         *)
(* An address is scheme, host, path, query and fragment in a row, e.g.     *)
(* <<"https://", "youtu.be", "/", "ID", "?", "t", "=", "9", "0">>.          *)
(***************************************************************************)
Hosts == {"www.youtube.com", "youtu.be", "example.com", "notyoutube.com"}
\* the hosts whose name contains the text the code looks for
HostsWithYoutubeCom == {"www.youtube.com", "notyoutube.com"}
HostsWithYoutuBe == {"youtu.be"}
\* the hosts that are YouTube's
YouTubeHosts == {"www.youtube.com", "youtu.be"}
\* a run of [a-zA-Z0-9_-]
Words == {"ID", "ID2", "watch", "clip", "embed", "shorts"}

AddressHeads == {<<"https://", h>> : h \in Hosts} \cup {<<>>, <<"www.youtube.com">>}
AddressPaths ==
    { <<"/">>, <<"/", "watch">>, <<"/", "clip", "/", "ID">>, <<"/", "clip", "/">>,
      <<"/", "embed", "/", "ID">>, <<"/", "shorts", "/", "ID">>, <<"/", "ID">> }
AddressQueries ==
    { <<>>,
      <<"?", "v", "=", "ID">>,
      <<"?", "start", "=", "1", "0">>,
      <<"?", "start", "=", "1", "0", "&", "end", "=", "2", "0">>,
      <<"?", "t", "=", "9", "0">>,
      <<"?", "t", "=", "1", "m", "3", "0", "s">>,
      <<"?", "v", "=", "ID", "&", "start", "=", "1", "0", "&", "end", "=", "2", "0">>,
      <<"?", "v", "=", "ID2", "&", "t", "=", "9", "0", "s">> }
AddressHashes == {<<>>, <<"#", "t", "=", "3", "0">>}
Addresses == {h \o p \o q \o f : h \in AddressHeads, p \in AddressPaths,
                                 q \in AddressQueries, f \in AddressHashes}

\* the first position of tok in str from position p on, Len(str) + 1 if none
IndexFrom(str, tok, p) ==
    LET hits == {k \in p .. Len(str) : str[k] = tok}
    IN  IF hits = {} THEN Len(str) + 1 ELSE CHOOSE k \in hits : \A j \in hits : k <= j

\* new URL(url) throws unless the string starts with a scheme and a host
IsUrl(a) == Len(a) >= 2 /\ a[1] = "https://"
Hostname(a) == a[2]
HashStart(a) == IndexFrom(a, "#", 3)
SearchStart(a) == Min(IndexFrom(a, "?", 3), HashStart(a))
Pathname(a) == SubSeq(a, 3, SearchStart(a) - 1)
Search(a) == SubSeq(a, SearchStart(a) + 1, HashStart(a) - 1)
Hash(a) == SubSeq(a, HashStart(a), Len(a))

\* searchParams.get(key): the value of the first key=value pair with that
\* key, <<>> for null
SearchParam(search, key) ==
    LET starts == {k \in 1 .. Len(search) :
                      /\ search[k] = key
                      /\ CharAt(search, k + 1) = "="
                      /\ (k = 1 \/ search[k - 1] = "&")}
    IN  IF starts = {} THEN <<>>
        ELSE LET k == CHOOSE a \in starts : \A b \in starts : a <= b
             IN  SubSeq(search, k + 2, IndexFrom(search, "&", k) - 1)

\* the first word of str, whatever precedes it
WordAfter_anywhere(str, prefix) ==
    LET hits == {k \in 1 .. Len(str) : str[k] \in Words}
    IN  IF hits = {} THEN "null"
        ELSE str[CHOOSE k \in hits : \A j \in hits : k <= j]

\* str.match(/<prefix>([a-zA-Z0-9_-]+)/)[1], "null" without a match
WordAfter(str, prefix) ==
    LET n == Len(prefix)
        hits == {k \in 1 .. Len(str) :
                    /\ k + n <= Len(str)
                    /\ SubSeq(str, k, k + n - 1) = prefix
                    /\ str[k + n] \in Words}
    IN  IF hits = {} THEN "null"
        ELSE str[(CHOOSE k \in hits : \A j \in hits : k <= j) + n]

\* str.includes(<part>)
Includes(str, part) ==
    \E k \in 1 .. Len(str) : k + Len(part) - 1 <= Len(str) /\ SubSeq(str, k, k + Len(part) - 1) = part

\* a query that is never read
ParamWord_absent(search, key) == "null"

\* searchParams.get('v') as a videoId
ParamWord(search, key) ==
    IF SearchParam(search, key) = <<>> THEN "null" ELSE SearchParam(search, key)[1]

\* youtubeParser.ts parseYouTubeUrl, lines 18-102
parseYouTubeUrl(url) ==
    LET info == [NoInfo EXCEPT !.url = url]
    IN  IF ~IsUrl(url) THEN info
        ELSE
        LET hostname == Hostname(url)
            pathname == Pathname(url)
            search == Search(url)
            embedMatch == WordAfter(pathname, <<"/", "embed", "/">>)
            shortsMatch == WordAfter(pathname, <<"/", "shorts", "/">>)
            shortMatch == WordAfter(pathname, <<"/">>)
            videoId ==
                IF hostname \in HostsWithYoutubeCom
                THEN IF shortsMatch # "null" THEN shortsMatch
                     ELSE IF embedMatch # "null" THEN embedMatch
                     ELSE ParamWord(search, "v")
                ELSE IF hostname \in HostsWithYoutuBe /\ shortMatch # "null"
                THEN shortMatch
                ELSE "null"
            start == SearchParam(search, "start")
            end == SearchParam(search, "end")
            timestamp == SearchParam(search, "t")
            hashTime == MatchDigits(Hash(url), TimeChars \cup {"&"})
            hashMatches == Len(Hash(url)) >= 4 /\ SubSeq(Hash(url), 1, 3) = <<"#", "t", "=">>
                           /\ Hash(url)[4] \in Digits
            startSeconds ==
                IF hashMatches THEN parseInt(hashTime)
                ELSE IF timestamp # <<>> THEN parseTimeString(timestamp)
                ELSE IF start # <<>> THEN parseInt(start)
                ELSE NullTime
        IN  IF Includes(pathname, <<"/", "clip", "/">>)
            THEN [info EXCEPT !.isClip = TRUE,
                                !.clipId = WordAfter(pathname, <<"/", "clip", "/">>),
                                !.videoId = ParamWord(search, "v")]
            ELSE [info EXCEPT !.videoId = videoId,
                                !.startTime = startSeconds,
                                !.endTime = IF end # <<>> THEN parseInt(end) ELSE NullTime,
                                !.isClip = (start # <<>> \/ end # <<>>)]

parseUrl ==
    /\ clipInfo.url = <<>>
    /\ clipInfo' = parseYouTubeUrl(address)
    /\ UNCHANGED <<hms, timeStr, seconds, address, ParseFrame>>

InitUrl ==
    /\ address \in Addresses
    /\ clipInfo = NoInfo
    /\ hms = <<0, 0, 1>> /\ timeStr = <<>> /\ seconds = NullTime
    /\ videoDuration = Secs(ShortVideoSeconds) /\ startTime = 0 /\ endTime = Secs(1)
    /\ dragging = "none" /\ fps = 10 /\ lastOp = NoOp
    /\ JobIdle
    /\ DocIdle /\ BridgeIdle /\ MsgIdle /\ AuxIdle

NextUrl == parseUrl

SpecUrl == InitUrl /\ [][NextUrl]_vars

\* an address that is no URL, or a URL whose host is not YouTube's
Unsupported(a) == ~IsUrl(a) \/ Hostname(a) \notin YouTubeHosts

\* C20: for a string that is not a URL, and for a URL on a host other than
\* YouTube, parseYouTubeUrl returns videoId, clipId, startTime and endTime
\* all null.
C20_UnsupportedAllNull ==
    (clipInfo.url # <<>> /\ Unsupported(clipInfo.url)) =>
        /\ clipInfo.videoId = "null"
        /\ clipInfo.clipId = "null"
        /\ clipInfo.startTime = NullTime
        /\ clipInfo.endTime = NullTime

\* the supported video shapes: watch address with a v parameter, youtu.be
\* short link, /embed/<id>, /shorts/<id>
SupportedVideoShape(a) ==
    /\ IsUrl(a)
    /\ \/ /\ Hostname(a) = "www.youtube.com"
          /\ Pathname(a) = <<"/", "watch">>
          /\ SearchParam(Search(a), "v") # <<>>
       \/ /\ Hostname(a) = "www.youtube.com"
          /\ Pathname(a) \in {<<"/", "embed", "/", "ID">>, <<"/", "shorts", "/", "ID">>}
       \/ /\ Hostname(a) = "youtu.be"
          /\ Pathname(a) = <<"/", "ID">>

\* the identifier such an address embeds: its v parameter for a watch
\* address, the last path segment otherwise
EmbeddedId(a) ==
    IF Pathname(a) = <<"/", "watch">>
    THEN SearchParam(Search(a), "v")[1]
    ELSE Pathname(a)[Len(Pathname(a))]

\* C21: for an address of a supported video shape, parseYouTubeUrl returns
\* the identifier embedded in the address as videoId.
C21_VideoIdOfSupportedShape ==
    (clipInfo.url # <<>> /\ SupportedVideoShape(clipInfo.url)) =>
        clipInfo.videoId = EmbeddedId(clipInfo.url)

\* an embed address that also has a v parameter with another identifier
C21_Witness ==
    /\ clipInfo.url = <<"https://", "www.youtube.com", "/", "embed", "/", "ID",
                        "?", "v", "=", "ID2", "&", "t", "=", "9", "0", "s">>
    /\ clipInfo.videoId = "ID"

\* the address has the query parameters start=10 and end=20
CarriesStartEnd(a) ==
    /\ IsUrl(a)
    /\ SearchParam(Search(a), "start") = <<"1", "0">>
    /\ SearchParam(Search(a), "end") = <<"2", "0">>

OnlyStartEnd(a) ==
    /\ ~Includes(Pathname(a), <<"/", "clip", "/">>)
    /\ SearchParam(Search(a), "t") = <<>>
    /\ Hash(a) = <<>>

HasClipSegment(a) == IsUrl(a) /\ WordAfter(Pathname(a), <<"/", "clip", "/">>) # "null"

\* C23: for an address whose path has a segment /clip/<id>, parseYouTubeUrl
\* returns clipId = <id>, isClip true, and videoId equal to the v parameter
\* or null without one.
C23_ClipSegment ==
    (clipInfo.url # <<>> /\ HasClipSegment(clipInfo.url)) =>
        /\ clipInfo.clipId = "ID"
        /\ clipInfo.isClip
        /\ clipInfo.videoId = IF SearchParam(Search(clipInfo.url), "v") = <<>>
                              THEN "null"
                              ELSE SearchParam(Search(clipInfo.url), "v")[1]

\* a clip address with a v parameter
C23_Witness ==
    /\ clipInfo.url = <<"https://", "www.youtube.com", "/", "clip", "/", "ID",
                        "?", "v", "=", "ID2", "&", "t", "=", "9", "0", "s">>
    /\ clipInfo.clipId = "ID"
    /\ clipInfo.videoId = "ID2"
    /\ clipInfo.isClip

====
